---- MODULE Spec2Model ----
(***************************************************************************)
(* Model of swiftbot-rust-lib/src/camera.rs: the shared native frame       *)
(* buffer, the background capture worker, and the timed recorder, with     *)
(* the three mutexes (CAMERA_MUTEX, CAMERA_RUNNING, NATIVE_BUFFER) made    *)
(* explicit.  Caller threads and capture worker threads interleave at      *)
(* every lock acquisition and every blocking call; statements that touch   *)
(* no shared state are executed together with the step before them.        *)
(* Threads of one kind run the same code and are told apart only by where  *)
(* they are, so the model counts the threads at each position.             *)
(***************************************************************************)
EXTENDS Integers, FiniteSets, Sequences, TLC

\* ---- bounds of the model ----
NumClients == 2      \* caller threads entering the three public functions
MaxWorkers == 2      \* capture worker threads that may be alive at once
MaxAddr    == 2      \* distinct addresses malloc may hand out
MaxDur     == 1      \* largest duration_seconds passed to capture_video
MaxFrames  == 2      \* most frames capture_video writes within one second
MaxSrcLen  == 13     \* longest frame handed to yuyv422_to_rgb24
WIDTH      == 2      \* frame width, scaled down from 640 (line 19)
HEIGHT     == 2      \* frame height, scaled down from 480 (line 20)

Addrs == 1..MaxAddr
NULL  == 0

\* mutex holders
NoThread     == "none"
ClientThread == "client"
WorkerThread == "worker"

\* positions of a caller thread: the statement it executes next
GdbPcs == {"gdb_lock_camera", "gdb_lock_buffer", "sc_lock_running", "sc_open"}
RelPcs == {"stop_sleep", "rel_free"}
\* capture_video positions at which the call owns its own MmapStream
CvStreamPcs == {"cv_loop", "cv_next"}
CvPcs == {"cv_check", "cv_open"} \cup CvStreamPcs
ClientPcs == {"idle"} \cup GdbPcs \cup RelPcs \cup CvPcs

\* what is remembered of the state a release_camera call started in
RelCtxs == {"none", "leased", "quiet"}
ClientStates == ((ClientPcs \ RelPcs) \X {"none"}) \cup (RelPcs \X RelCtxs)
At(l) == <<l, "none">>

\* positions of a capture worker thread
WorkerPcs == {"w_start", "w_check", "w_next", "w_lock_buffer", "w_write",
              "w_exit"}

VARIABLES
  callers,         \* callers[<<l, x>>]: number of caller threads at position l
                   \*   (x: for a release_camera call, the state it started in)
  workers,         \* workers[l]: number of capture worker threads at position l
  CAMERA_MUTEX,    \* holder of CAMERA_MUTEX
  running_lock,    \* holder of the mutex around CAMERA_RUNNING
  buffer_lock,     \* holder of the mutex around NATIVE_BUFFER
  CAMERA_RUNNING,  \* the bool inside CAMERA_RUNNING
  NATIVE_BUFFER,   \* the pointer inside NATIVE_BUFFER
  heap,            \* addresses malloc'ed and not yet freed
  double_free,     \* libc::free was called on an address not in heap
  did_alloc,       \* the get_direct_buffer call in progress has called malloc
  dur,             \* duration_seconds of the capture_video call in progress
  elapsed,         \* start_time.elapsed().as_secs() of that call
  frames,          \* frames that call wrote in the current second
  returned,        \* the call return made by the latest step, if it made one
  phase,           \* history: "leased" after a successful get_direct_buffer,
                   \*   "released" after release_camera returned, else "none"
  lastHandle,      \* history: pointer the lease in force was handed out over
  cv_ctx,          \* history: the phase the capture_video call in progress
                   \*   started in, "none" once that phase has ended
  stopped,         \* history: the position of one worker that was in its loop
                   \*   when a stop_camera cleared the flag, "none" while no
                   \*   worker is followed, "off" when none is ever followed
  src,             \* the frame bytes given to yuyv422_to_rgb24
  conv             \* what yuyv422_to_rgb24 did with src, once applied

locks == <<CAMERA_MUTEX, running_lock, buffer_lock>>
mem   == <<NATIVE_BUFFER, heap, double_free>>
rec   == <<dur, elapsed, frames>>
hist  == <<phase, lastHandle, cv_ctx>>
px    == <<src, conv>>
vars  == <<callers, workers, CAMERA_MUTEX, running_lock, buffer_lock,
           CAMERA_RUNNING, NATIVE_BUFFER, heap, double_free, did_alloc, dur,
           elapsed, frames, returned, phase, lastHandle, cv_ctx, stopped, src,
           conv>>

\* what a call returns: Ok kinds "Handle", "Released", "Recorded", or an error
ResultKinds == {"Handle", "Released", "Recorded", "AllocationError",
                "DeviceError", "JniError", "InUseError", "EncodingError",
                "IoError"}
NoReturn == [op |-> "none", kind |-> "none", ctx |-> "none", again |-> FALSE,
             pull |-> FALSE]

\* yuyv422_to_rgb24 not applied yet
NotApplied == [applied |-> FALSE, steps |-> 0, reads |-> {}, out |-> <<>>]

InitCamera ==
  /\ callers = [s \in ClientStates |-> IF s = At("idle") THEN NumClients ELSE 0]
  /\ workers = [l \in WorkerPcs |-> 0]
  /\ CAMERA_MUTEX = NoThread
  /\ running_lock = NoThread
  /\ buffer_lock = NoThread
  /\ CAMERA_RUNNING = FALSE
  /\ NATIVE_BUFFER = NULL
  /\ heap = {}
  /\ double_free = FALSE
  /\ did_alloc = FALSE
  /\ dur = 0
  /\ elapsed = 0
  /\ frames = 0
  /\ returned = NoReturn
  /\ phase = "none"
  /\ lastHandle = NULL
  /\ cv_ctx = "none"

Init ==
  /\ InitCamera
  /\ stopped = "off"
  /\ src = <<>>
  /\ conv = NotApplied

\* ---- bookkeeping ----

\* number of caller threads at position l
Callers(l) == IF l \in RelPcs
                THEN callers[<<l, "none">>] + callers[<<l, "leased">>]
                     + callers[<<l, "quiet">>]
                ELSE callers[At(l)]
\* number of capture worker threads alive (spawned and not ended)
LiveWorkers == workers["w_start"] + workers["w_check"] + workers["w_next"]
               + workers["w_lock_buffer"] + workers["w_write"] + workers["w_exit"]

InAcquire == \E l \in GdbPcs : callers[At(l)] > 0
InRecord  == \E l \in CvPcs : callers[At(l)] > 0

\* no buffer is allocated and no capture loop is running
Quiet == heap = {} /\ ~CAMERA_RUNNING

\* positions of a worker inside the while loop of lines 167-186
LoopPcs == {"w_check", "w_next", "w_lock_buffer", "w_write"}

\* one caller moves from state a to state b; the step returns nothing.  A
\* caller that enters the grace sleep of stop_camera has just cleared the flag
\* (line 201): one of the workers in their loop at that moment, any of them,
\* is followed from then on, unless one is being followed already.
Goto(a, b) ==
  /\ callers[a] > 0
  /\ callers' = [callers EXCEPT ![a] = @ - 1, ![b] = @ + 1]
  /\ returned' = NoReturn
  /\ IF /\ a = At("idle") /\ b[1] = "stop_sleep" /\ stopped = "none"
        /\ \E l \in LoopPcs : workers[l] > 0
       THEN stopped' \in {l \in LoopPcs : workers[l] > 0}
       ELSE UNCHANGED stopped
  /\ UNCHANGED px

\* one caller at state a returns r from function op (x: the context the call
\* started in; again: a handle returned while a lease was already in force;
\* pull: the return is the `?` of a failed stream.next() at line 105)
Return(a, op, r, x) ==
  /\ callers[a] > 0
  /\ callers' = [callers EXCEPT ![a] = @ - 1, ![At("idle")] = @ + 1]
  /\ returned' = [op |-> op, kind |-> r, ctx |-> x,
                  again |-> (r = "Handle" /\ phase = "leased"),
                  pull |-> (a = At("cv_next") /\ r = "DeviceError")]
  /\ UNCHANGED <<stopped, px>>

\* every step of a release_camera call ends the lease in force
EndLease ==
  /\ lastHandle' = NULL
  /\ phase' = IF phase = "released" THEN "released" ELSE "none"
  /\ cv_ctx' = IF cv_ctx = "leased" THEN "none" ELSE cv_ctx

\* ---- get_direct_buffer ----

\* a caller enters get_direct_buffer
get_direct_buffer_call ==
  /\ Goto(At("idle"), At("gdb_lock_camera"))
  /\ phase' = IF phase = "released" THEN "none" ELSE phase
  /\ cv_ctx' = IF cv_ctx = "released" THEN "none" ELSE cv_ctx
  /\ UNCHANGED <<workers, locks, CAMERA_RUNNING, mem, did_alloc, rec, lastHandle>>

\* line 32: CAMERA_MUTEX.lock(), blocking until the mutex is free
get_direct_buffer_lock_camera ==
  /\ CAMERA_MUTEX = NoThread
  /\ Goto(At("gdb_lock_camera"), At("gdb_lock_buffer"))
  /\ CAMERA_MUTEX' = ClientThread
  /\ UNCHANGED <<workers, running_lock, buffer_lock, CAMERA_RUNNING, mem,
                 did_alloc, rec, hist>>

\* lines 49-55 and the return: env.new_direct_byte_buffer(p, BUFFER_SIZE)
\* gives the handle or fails; every guard of the call drops
WrapAndReturn(l, p) ==
  /\ \/ /\ Return(At(l), "get_direct_buffer", "Handle", "none")
        /\ phase' = "leased"
        /\ lastHandle' = p
     \/ /\ Return(At(l), "get_direct_buffer", "JniError", "none")
        /\ UNCHANGED <<phase, lastHandle>>
  /\ did_alloc' = FALSE
  /\ buffer_lock' = NoThread
  /\ CAMERA_MUTEX' = NoThread
  /\ UNCHANGED cv_ctx

\* an error return of get_direct_buffer: every guard of the call drops
FailAndReturn(l, e) ==
  /\ Return(At(l), "get_direct_buffer", e, "none")
  /\ did_alloc' = FALSE
  /\ buffer_lock' = NoThread
  /\ CAMERA_MUTEX' = NoThread
  /\ UNCHANGED hist

\* line 35, taken without the null test
AlwaysAllocate(p) == TRUE

\* line 35: the buffer is allocated only when the pointer is null
NeedsAllocation(p) == p = NULL

\* lines 34-41: NATIVE_BUFFER.lock(), the null test, and (pointer null)
\* *buffer_guard = malloc(BUFFER_SIZE), whose null result is an error; with a
\* pointer already there the call goes straight to lines 49-55
get_direct_buffer_lock_buffer ==
  /\ buffer_lock = NoThread
  /\ IF NeedsAllocation(NATIVE_BUFFER)
       THEN \/ \E a \in Addrs \ heap :
                 /\ Goto(At("gdb_lock_buffer"), At("sc_lock_running"))
                 /\ NATIVE_BUFFER' = a
                 /\ heap' = heap \cup {a}
                 /\ did_alloc' = TRUE
                 /\ buffer_lock' = ClientThread
                 /\ UNCHANGED <<CAMERA_MUTEX, hist>>
            \/ /\ FailAndReturn("gdb_lock_buffer", "AllocationError")
               /\ NATIVE_BUFFER' = NULL
               /\ UNCHANGED heap
       ELSE /\ WrapAndReturn("gdb_lock_buffer", NATIVE_BUFFER)
            /\ UNCHANGED <<NATIVE_BUFFER, heap>>
  /\ UNCHANGED <<workers, running_lock, CAMERA_RUNNING, double_free, rec>>

\* ---- start_camera (called from get_direct_buffer, line 45) ----

\* lines 136-139: CAMERA_RUNNING.lock(); return Ok(()) when already running
\* (get_direct_buffer goes on to lines 49-55).  Otherwise the guard lives
\* until start_camera returns.
start_camera_lock ==
  /\ running_lock = NoThread
  /\ IF CAMERA_RUNNING
       THEN /\ WrapAndReturn("sc_lock_running", NATIVE_BUFFER)
            /\ UNCHANGED running_lock
       ELSE /\ Goto(At("sc_lock_running"), At("sc_open"))
            /\ running_lock' = ClientThread
            /\ UNCHANGED <<did_alloc, buffer_lock, CAMERA_MUTEX, hist>>
  /\ UNCHANGED <<workers, CAMERA_RUNNING, mem, rec>>

\* lines 142-193 with thread::spawn moved ahead of the device setup: the
\* worker exists whether or not the setup then fails
start_camera_open_spawn_first ==
  /\ LiveWorkers < MaxWorkers
  /\ workers' = [workers EXCEPT !["w_start"] = @ + 1]
  /\ \/ FailAndReturn("sc_open", "DeviceError")
     \/ WrapAndReturn("sc_open", NATIVE_BUFFER)
  /\ running_lock' = NoThread
  /\ UNCHANGED <<CAMERA_RUNNING, mem, rec>>

\* lines 142-193: open, get/set format, create the stream (each may fail and
\* the error leaves get_direct_buffer through `?` at line 45, which drops the
\* guards and touches neither the pointer nor the allocation), then
\* thread::spawn, Ok(()), and lines 49-55 of get_direct_buffer.
start_camera_open ==
  /\ \/ \E stage \in {"open", "get_format", "set_format", "stream"} :
          /\ FailAndReturn("sc_open", "DeviceError")
          /\ UNCHANGED workers
     \/ /\ LiveWorkers < MaxWorkers
        /\ workers' = [workers EXCEPT !["w_start"] = @ + 1]
        /\ WrapAndReturn("sc_open", NATIVE_BUFFER)
  /\ running_lock' = NoThread
  /\ UNCHANGED <<CAMERA_RUNNING, mem, rec>>

\* ---- release_camera and stop_camera ----

\* a release_camera call stays "quiet" as long as every step of it so far ran
\* with nothing allocated and nothing running
StillQuiet(x) == IF x = "quiet" /\ ~Quiet THEN "none" ELSE x

\* release_camera takes no CAMERA_MUTEX and begins with stop_camera,
\* lines 197-204: lock CAMERA_RUNNING; return when not running, else clear
\* the flag and drop the guard
stop_camera ==
  /\ running_lock = NoThread
  /\ LET x == IF phase = "leased" THEN "leased"
              ELSE IF Quiet THEN "quiet" ELSE "none"
     IN IF ~CAMERA_RUNNING
          THEN /\ Goto(At("idle"), <<"rel_free", x>>)
               /\ UNCHANGED CAMERA_RUNNING
          ELSE /\ Goto(At("idle"), <<"stop_sleep", x>>)
               /\ CAMERA_RUNNING' = FALSE
  /\ EndLease
  /\ UNCHANGED <<workers, locks, mem, did_alloc, rec>>

\* line 205: thread::sleep(100 ms) ends, whatever the worker has done meanwhile
stop_camera_sleep ==
  /\ \E x \in RelCtxs : Goto(<<"stop_sleep", x>>, <<"rel_free", StillQuiet(x)>>)
  /\ EndLease
  /\ UNCHANGED <<workers, locks, CAMERA_RUNNING, mem, did_alloc, rec>>

\* the release_camera return: the phase is "released" when the call followed a
\* successful get_direct_buffer and no get_direct_buffer is in progress
ReleaseReturn ==
  \E x \in RelCtxs :
    /\ Return(<<"rel_free", x>>, "release_camera", "Released", StillQuiet(x))
    /\ lastHandle' = NULL
    /\ phase' = IF x = "leased" /\ ~InAcquire THEN "released"
                ELSE IF phase = "released" THEN "released" ELSE "none"
    /\ cv_ctx' = IF cv_ctx = "leased" THEN "none" ELSE cv_ctx

\* lines 61-67 with line 65 left out: the pointer is freed and kept
release_camera_free_keep_pointer ==
  /\ buffer_lock = NoThread
  /\ IF NATIVE_BUFFER # NULL
       THEN /\ heap' = heap \ {NATIVE_BUFFER}
            /\ double_free' = (double_free \/ NATIVE_BUFFER \notin heap)
       ELSE UNCHANGED <<heap, double_free>>
  /\ UNCHANGED NATIVE_BUFFER
  /\ ReleaseReturn
  /\ UNCHANGED <<workers, locks, CAMERA_RUNNING, did_alloc, rec>>

\* lines 61-67 without the lock of line 61: the free does not wait for the
\* holder of the NATIVE_BUFFER mutex
release_camera_free_no_lock ==
  /\ IF NATIVE_BUFFER # NULL
       THEN /\ heap' = heap \ {NATIVE_BUFFER}
            /\ double_free' = (double_free \/ NATIVE_BUFFER \notin heap)
            /\ NATIVE_BUFFER' = NULL
       ELSE UNCHANGED <<heap, double_free, NATIVE_BUFFER>>
  /\ ReleaseReturn
  /\ UNCHANGED <<workers, locks, CAMERA_RUNNING, did_alloc, rec>>

\* lines 61-67: lock NATIVE_BUFFER; free and null the pointer when non-null
release_camera_free ==
  /\ buffer_lock = NoThread
  /\ IF NATIVE_BUFFER # NULL
       THEN /\ heap' = heap \ {NATIVE_BUFFER}
            /\ double_free' = (double_free \/ NATIVE_BUFFER \notin heap)
            /\ NATIVE_BUFFER' = NULL
       ELSE UNCHANGED <<heap, double_free, NATIVE_BUFFER>>
  /\ ReleaseReturn
  /\ UNCHANGED <<workers, locks, CAMERA_RUNNING, did_alloc, rec>>

\* ---- capture_video ----

\* a capture_video return: the stream, the writer and the CAMERA_MUTEX guard drop
RecordReturn(l, r) ==
  /\ Return(At(l), "capture_video", r, cv_ctx)
  /\ CAMERA_MUTEX' = NoThread
  /\ dur' = 0
  /\ elapsed' = 0
  /\ frames' = 0
  /\ cv_ctx' = "none"
  /\ UNCHANGED <<phase, lastHandle>>

\* a caller enters capture_video(file_path, d); line 71: CAMERA_MUTEX.lock()
\* (a call that waits for the mutex has done nothing yet: it is the call
\* made when the mutex is free)
capture_video_lock_camera ==
  /\ CAMERA_MUTEX = NoThread
  /\ Goto(At("idle"), At("cv_check"))
  /\ CAMERA_MUTEX' = ClientThread
  /\ \E d \in 0..MaxDur : dur' = d
  /\ cv_ctx' = phase
  /\ UNCHANGED <<workers, running_lock, buffer_lock, CAMERA_RUNNING, mem,
                 did_alloc, elapsed, frames, phase, lastHandle>>

\* lines 74-76: if *CAMERA_RUNNING.lock().unwrap() { return Err(in use) }
capture_video_check ==
  /\ running_lock = NoThread
  /\ IF CAMERA_RUNNING
       THEN RecordReturn("cv_check", "InUseError")
       ELSE /\ Goto(At("cv_check"), At("cv_open"))
            /\ UNCHANGED <<CAMERA_MUTEX, rec, hist>>
  /\ UNCHANGED <<workers, running_lock, buffer_lock, CAMERA_RUNNING, mem,
                 did_alloc>>

\* lines 79-100: open, get/set format, MmapStream::with_buffers, File::create,
\* each of which may fail; then start_time = Instant::now()
capture_video_open ==
  /\ \/ \E stage \in {"open", "get_format", "set_format", "stream"} :
          RecordReturn("cv_open", "DeviceError")
     \/ RecordReturn("cv_open", "IoError")
     \/ /\ Goto(At("cv_open"), At("cv_loop"))
        /\ UNCHANGED <<CAMERA_MUTEX, rec, hist>>
  /\ UNCHANGED <<workers, running_lock, buffer_lock, CAMERA_RUNNING, mem,
                 did_alloc>>

\* line 102 with <= for <: one more iteration once the duration has elapsed
LoopGoesOnAtDuration(e, d) == e <= d

\* line 102: start_time.elapsed().as_secs() < duration_seconds as u64
LoopGoesOn(e, d) == e < d

\* line 102: while start_time.elapsed().as_secs() < duration_seconds; on loop
\* exit lines 130-132: writer.flush()?, Ok(())
capture_video_loop ==
  /\ IF LoopGoesOn(elapsed, dur)
       THEN /\ Goto(At("cv_loop"), At("cv_next"))
            /\ UNCHANGED <<CAMERA_MUTEX, rec, hist>>
       ELSE \/ RecordReturn("cv_loop", "IoError")
            \/ RecordReturn("cv_loop", "Recorded")
  /\ UNCHANGED <<workers, running_lock, buffer_lock, CAMERA_RUNNING, mem,
                 did_alloc>>

\* line 105 with the error retried as the capture worker does at lines
\* 178-181: the failed pull is reported and the loop goes on
capture_video_pull_retry ==
  /\ callers[At("cv_next")] > 0
  /\ callers' = [callers EXCEPT ![At("cv_next")] = @ - 1,
                                ![At("cv_loop")] = @ + 1]
  /\ returned' = [NoReturn EXCEPT !.pull = TRUE]
  /\ UNCHANGED <<CAMERA_MUTEX, rec, hist, stopped, px>>

\* line 105: stream.next() fails and `?` returns the error from capture_video
capture_video_pull_error == RecordReturn("cv_next", "DeviceError")

\* lines 103-127, one iteration: stream.next()?, yuyv422_to_rgb24,
\* encoder.encode(..)?, writer.write_all(..)?, then the sleep for the rest of
\* the frame interval.  The whole seconds elapsed since start_time stay or
\* grow (dur or more ends the loop whatever the value); an iteration lasts at
\* least 1/FRAME_RATE s, so no more than MaxFrames frames are written before
\* the clock moves on.
capture_video_next ==
  /\ \/ capture_video_pull_error
     \/ RecordReturn("cv_next", "EncodingError")
     \/ RecordReturn("cv_next", "IoError")
     \/ \E e \in elapsed..dur :
          /\ (e = elapsed) => frames + 1 < MaxFrames
          /\ Goto(At("cv_next"), At("cv_loop"))
          /\ elapsed' = e
          /\ frames' = IF e = elapsed THEN frames + 1 ELSE 0
          /\ UNCHANGED <<CAMERA_MUTEX, dur, hist>>
  /\ UNCHANGED <<workers, running_lock, buffer_lock, CAMERA_RUNNING, mem,
                 did_alloc>>

\* ---- the capture worker (the closure of thread::spawn, lines 160-191) ----

\* a step of some worker at position a, taking it to position b
WorkerGoto(a, b) ==
  /\ workers[a] > 0
  /\ workers' = [workers EXCEPT ![a] = @ - 1, ![b] = @ + 1]
  /\ \/ /\ stopped = a
        /\ stopped' = b
     \/ /\ workers[a] > (IF stopped = a THEN 1 ELSE 0)
        /\ UNCHANGED stopped
  /\ returned' = NoReturn
  /\ UNCHANGED <<callers, CAMERA_MUTEX, mem, did_alloc, rec, hist, px>>

\* lines 162-165: the worker's first statement sets the flag
worker_start ==
  /\ running_lock = NoThread
  /\ WorkerGoto("w_start", "w_check")
  /\ CAMERA_RUNNING' = TRUE
  /\ UNCHANGED <<running_lock, buffer_lock>>

\* line 167: while *running_clone.lock().unwrap()
worker_check ==
  /\ running_lock = NoThread
  /\ WorkerGoto("w_check", IF CAMERA_RUNNING THEN "w_next" ELSE "w_exit")
  /\ UNCHANGED <<CAMERA_RUNNING, running_lock, buffer_lock>>

\* lines 168, 178-185: stream.next() returns a frame, or an error that is
\* printed and slept over before the next iteration
worker_next ==
  /\ \E ok \in BOOLEAN :
        WorkerGoto("w_next", IF ok THEN "w_lock_buffer" ELSE "w_check")
  /\ UNCHANGED <<CAMERA_RUNNING, running_lock, buffer_lock>>

\* lines 170-172: lock NATIVE_BUFFER, read the pointer, test it for null; on
\* null the arm ends, the guard drops and the loop sleeps 1 ms
worker_lock_buffer ==
  /\ buffer_lock = NoThread
  /\ IF NATIVE_BUFFER # NULL
       THEN /\ WorkerGoto("w_lock_buffer", "w_write")
            /\ buffer_lock' = WorkerThread
       ELSE /\ WorkerGoto("w_lock_buffer", "w_check")
            /\ UNCHANGED buffer_lock
  /\ UNCHANGED <<CAMERA_RUNNING, running_lock>>

\* lines 173-177 with the guard leaked: the NATIVE_BUFFER mutex stays locked
worker_write_keep_guard ==
  /\ WorkerGoto("w_write", "w_check")
  /\ UNCHANGED <<CAMERA_RUNNING, running_lock, buffer_lock>>

\* lines 173-177, 185: yuyv422_to_rgb24(&data, native_buffer) under the guard,
\* which drops at the end of the arm; then the 1 ms sleep
worker_write ==
  /\ WorkerGoto("w_write", "w_check")
  /\ buffer_lock' = NoThread
  /\ UNCHANGED <<CAMERA_RUNNING, running_lock>>

\* lines 188-191: the loop has ended; clear the flag; the thread and its
\* stream end
worker_exit ==
  /\ running_lock = NoThread
  /\ workers["w_exit"] > 0
  /\ workers' = [workers EXCEPT !["w_exit"] = @ - 1]
  /\ \/ /\ stopped = "w_exit"
        /\ stopped' = "none"
     \/ /\ workers["w_exit"] > (IF stopped = "w_exit" THEN 1 ELSE 0)
        /\ UNCHANGED stopped
  /\ CAMERA_RUNNING' = FALSE
  /\ returned' = NoReturn
  /\ UNCHANGED <<callers, locks, mem, did_alloc, rec, hist, px>>

\* ---- the system ----

\* a caller calls one of the three public functions
ClientCall ==
  \/ get_direct_buffer_call
  \/ stop_camera
  \/ capture_video_lock_camera

\* a call in progress goes on
ClientStep ==
  \/ get_direct_buffer_lock_camera
  \/ get_direct_buffer_lock_buffer
  \/ start_camera_lock
  \/ start_camera_open
  \/ stop_camera_sleep
  \/ release_camera_free
  \/ capture_video_check
  \/ capture_video_open
  \/ capture_video_loop
  \/ capture_video_next

WorkerStep ==
  \/ worker_start
  \/ worker_check
  \/ worker_next
  \/ worker_lock_buffer
  \/ worker_write
  \/ worker_exit

Next == ClientCall \/ ClientStep \/ WorkerStep

Spec == Init /\ [][Next]_vars

\* a step of the worker that is followed since a stop_camera
StoppedWorkerStep == WorkerStep /\ stopped \in WorkerPcs /\ stopped' # stopped

\* Threads that are runnable are scheduled: every statement of a call in
\* progress and of a worker is executed when it stays enabled (a blocking
\* device read returns).  Callers are free never to call again.
Fairness ==
  /\ WF_vars(get_direct_buffer_lock_camera)
  /\ WF_vars(get_direct_buffer_lock_buffer)
  /\ WF_vars(start_camera_lock)
  /\ WF_vars(start_camera_open)
  /\ WF_vars(stop_camera_sleep)
  /\ WF_vars(release_camera_free)
  /\ WF_vars(capture_video_check)
  /\ WF_vars(capture_video_open)
  /\ WF_vars(capture_video_loop)
  /\ WF_vars(capture_video_next)
  /\ WF_vars(worker_start)
  /\ WF_vars(worker_check)
  /\ WF_vars(worker_next)
  /\ WF_vars(worker_lock_buffer)
  /\ WF_vars(worker_write)
  /\ WF_vars(worker_exit)

FairSpec == Spec /\ Fairness

\* The same program with one worker followed from a stop_camera on; the
\* worker that is followed gets its turn, also at a lock that others keep
\* taking.
FollowInit ==
  /\ InitCamera
  /\ stopped = "none"
  /\ src = <<>>
  /\ conv = NotApplied

FollowSpec ==
  /\ FollowInit
  /\ [][Next]_vars
  /\ Fairness
  /\ SF_vars(StoppedWorkerStep)

TypeOK ==
  /\ callers \in [ClientStates -> 0..NumClients]
  /\ workers \in [WorkerPcs -> 0..MaxWorkers]
  /\ LiveWorkers <= MaxWorkers
  /\ CAMERA_MUTEX \in {NoThread, ClientThread}
  /\ running_lock \in {NoThread, ClientThread}
  /\ buffer_lock \in {NoThread, ClientThread, WorkerThread}
  /\ CAMERA_RUNNING \in BOOLEAN
  /\ NATIVE_BUFFER \in {NULL} \cup Addrs
  /\ heap \subseteq Addrs
  /\ double_free \in BOOLEAN
  /\ did_alloc \in BOOLEAN
  /\ dur \in 0..MaxDur /\ elapsed \in 0..MaxDur /\ frames \in 0..MaxFrames
  /\ returned.kind \in ResultKinds \cup {"none"}
  /\ returned.pull \in BOOLEAN /\ returned.again \in BOOLEAN
  /\ returned.op \in {"none", "get_direct_buffer", "release_camera",
                       "capture_video"}
  /\ phase \in {"none", "leased", "released"}
  /\ lastHandle \in {NULL} \cup Addrs
  /\ cv_ctx \in {"none", "leased", "released"}
  /\ stopped \in WorkerPcs \cup {"none", "off"}
  /\ stopped \in WorkerPcs => workers[stopped] > 0
  /\ Len(src) <= MaxSrcLen
  /\ conv.applied \in BOOLEAN /\ conv.steps \in Nat

\* ---- yuyv422_to_rgb24 ----

\* byte values of the frames tried
Bytes == {16, 240}
\* line 215: width * height * 3, the bytes the destination can take
DestCapacity == WIDTH * HEIGHT * 3

\* src[k] of the code (0-based); an index past the end reads as 0 here
SrcAt(s, k) == IF k < Len(s) THEN s[k + 1] ELSE 0

\* .round() of x/1000, half away from zero, then .clamp(0.0, 255.0) as u8
RoundClamp(x) ==
  LET r == IF x >= 0 THEN (x + 500) \div 1000 ELSE 0 - ((500 - x) \div 1000)
  IN IF r < 0 THEN 0 ELSE IF r > 255 THEN 255 ELSE r

\* lines 224-226 and 235-237, in thousandths: c = y - 16
Red(y, u, v)   == RoundClamp(1164 * (y - 16) + 1596 * v)
Green(y, u, v) == RoundClamp(1164 * (y - 16) - 392 * u - 813 * v)
Blue(y, u, v)  == RoundClamp(1164 * (y - 16) + 2017 * u)

\* line 215 without its destination test
ConvGoesOnSourceOnly(i, j, len) == i + 3 < len

\* line 215: while i + 3 < src.len() && j + 5 < width * height * 3
ConvGoesOn(i, j, len) == i + 3 < len /\ j + 5 < DestCapacity

\* lines 215-245: the loop from indices i, j on; acc gathers the steps done,
\* the source indices read and the destination bytes written
RECURSIVE yuyv422_loop(_, _, _, _)
yuyv422_loop(s, i, j, acc) ==
  IF ConvGoesOn(i, j, Len(s))
    THEN LET y0 == SrcAt(s, i)
             u  == SrcAt(s, i + 1) - 128
             y1 == SrcAt(s, i + 2)
             v  == SrcAt(s, i + 3) - 128
             written == [k \in j..(j + 5) |->
                           IF k = j THEN Red(y0, u, v)
                           ELSE IF k = j + 1 THEN Green(y0, u, v)
                           ELSE IF k = j + 2 THEN Blue(y0, u, v)
                           ELSE IF k = j + 3 THEN Red(y1, u, v)
                           ELSE IF k = j + 4 THEN Green(y1, u, v)
                           ELSE Blue(y1, u, v)]
         IN yuyv422_loop(s, i + 4, j + 6,
                         [applied |-> TRUE,
                          steps |-> acc.steps + 1,
                          reads |-> acc.reads \cup (i..(i + 3)),
                          out |-> written @@ acc.out])
    ELSE acc

\* lines 208-246
yuyv422_to_rgb24(s) ==
  yuyv422_loop(s, 0, 0, [NotApplied EXCEPT !.applied = TRUE])

\* the frames tried: every byte string of up to MaxSrcLen bytes
Frames == UNION {[1..n -> Bytes] : n \in 0..MaxSrcLen}

ConvInit ==
  /\ InitCamera
  /\ stopped = "off"
  /\ src \in Frames
  /\ conv = NotApplied

\* one call yuyv422_to_rgb24(&data, dest)
yuyv422_to_rgb24_call ==
  /\ ~conv.applied
  /\ conv' = yuyv422_to_rgb24(src)
  /\ UNCHANGED <<callers, workers, locks, CAMERA_RUNNING, mem, did_alloc, rec,
                 returned, hist, stopped, src>>

ConvNext == yuyv422_to_rgb24_call

ConvSpec == ConvInit /\ [][ConvNext]_vars

\* ---- the claims ----

\* a capture_video call is past its running-flag check and owns its stream
Recording == \E l \in CvStreamPcs : callers[At(l)] > 0

\* C1: the streaming path and the recording path never hold the device at the
\* same time: no state has a live capture worker (which owns the stream it was
\* spawned with) together with a capture_video call that has passed its
\* running-flag check and opened its own stream.
C1_StreamAndRecordExclusive == ~(LiveWorkers > 0 /\ Recording)

\* C2: a capture_video call started while a lease is in force (a successful
\* get_direct_buffer, no release_camera step since) never gets past the
\* running-flag check: it is rejected as in use.
C2_RecordWhileLeasedRejected ==
  ~(cv_ctx = "leased" /\ (callers[At("cv_open")] > 0 \/ Recording))

\* C3: a capture_video call started after release_camera returned, with no
\* get_direct_buffer issued since, is never rejected as in use.
C3_RecordAfterReleaseNotInUse ==
  ~(returned.op = "capture_video" /\ returned.kind = "InUseError"
    /\ returned.ctx = "released")

\* C4: when get_direct_buffer returns the device error of a failed
\* start_camera, the buffer it allocated has been freed: the pointer is null
\* and no allocation is outstanding.
C4_FailedAcquireFreesBuffer ==
  (returned.op = "get_direct_buffer" /\ returned.kind = "DeviceError")
    => (NATIVE_BUFFER = NULL /\ heap = {})

\* C5: a get_direct_buffer call that returns a handle while a lease is in
\* force (an earlier successful call, no release_camera step since) returns
\* the pointer of that lease, has called no malloc, changes neither the
\* pointer nor the heap, and spawns no worker.
C5_SecondAcquireSameBuffer ==
  [][(returned'.op = "get_direct_buffer" /\ returned'.kind = "Handle"
      /\ phase = "leased")
     => (/\ lastHandle' = lastHandle
         /\ ~did_alloc
         /\ NATIVE_BUFFER' = NATIVE_BUFFER
         /\ heap' = heap
         /\ workers' = workers)]_vars

\* C5 witness: the latest step returned a handle while a lease was in force
C5_Witness == returned.again /\ lastHandle # NULL

\* C6: at most one native buffer is allocated, and the pointer is non-null
\* exactly when it is: the heap holds the pointer's address and nothing else
\* (no second allocation, no lost one), and nothing is freed twice.
C6_OneBuffer ==
  /\ heap = (IF NATIVE_BUFFER = NULL THEN {} ELSE {NATIVE_BUFFER})
  /\ Cardinality(heap) <= 1
  /\ ~double_free

\* C6 witness: a get_direct_buffer call has just allocated the buffer while a
\* release_camera call is between its stop_camera and its free
C6_Witness ==
  /\ NATIVE_BUFFER # NULL
  /\ callers[At("sc_lock_running")] > 0
  /\ Callers("rel_free") > 0

\* a step of a release_camera call: a caller enters or leaves one of its positions
ReleaseStep == \E s \in RelPcs \X RelCtxs : callers'[s] # callers[s]

\* C7: a step of release_camera taken when no buffer is allocated and the
\* running flag is false changes neither the pointer nor the flag, frees
\* nothing, and returns no error.
C7_ReleaseIdempotent ==
  [][(ReleaseStep /\ Quiet)
     => (/\ NATIVE_BUFFER' = NATIVE_BUFFER
         /\ CAMERA_RUNNING' = CAMERA_RUNNING
         /\ heap' = heap
         /\ double_free' = double_free
         /\ returned'.kind \in {"none", "Released"})]_vars

\* C7 witness: a release_camera call has returned, every step of it taken
\* with nothing allocated and nothing running, in a state where an earlier
\* release_camera had ended a lease and no get_direct_buffer was issued since
C7_Witness ==
  /\ returned.op = "release_camera"
  /\ returned.ctx = "quiet"
  /\ phase = "released"

\* C8: once release_camera has returned after a successful get_direct_buffer,
\* and as long as no get_direct_buffer is issued, the capture stops: a state
\* with no live worker and the running flag false is reached.
C8_ReleaseStopsCapture ==
  (phase = "released")
    ~> (phase # "released" \/ (LiveWorkers = 0 /\ ~CAMERA_RUNNING))

\* C9: at most one capture worker thread is alive at any time.
C9_OneWorker == LiveWorkers <= 1

\* C10: a get_direct_buffer call issued while a recording is in progress
\* does not wait for it: the camera mutex the call takes first at line 32 is
\* free when the call is issued, so the call goes on to its own outcome.
C10_AcquireDoesNotWaitForRecording ==
  [][(callers'[At("gdb_lock_camera")] > callers[At("gdb_lock_camera")]
      /\ Recording)
     => CAMERA_MUTEX' = NoThread]_vars

\* C11: in capture_video a failed stream.next() ends the call in that very
\* step: the step is the return of the device error to the caller, the call
\* has left the loop (no retry, no further iteration, so nothing more is
\* written to the file), and CAMERA_MUTEX is free afterwards.
C11_PullFailureAborts ==
  [][returned'.pull
     => (/\ returned'.op = "capture_video"
         /\ returned'.kind = "DeviceError"
         /\ callers'[At("cv_next")] = callers[At("cv_next")] - 1
         /\ callers'[At("idle")] = callers[At("idle")] + 1
         /\ ~InRecord'
         /\ CAMERA_MUTEX' = NoThread)]_vars

\* C11 witness: the latest step was a failed frame pull of capture_video
C11_Witness == returned.pull /\ returned.op = "capture_video"

\* C12: capture_video with duration d terminates when stream.next() returns:
\* an iteration starts only while fewer than d whole seconds have elapsed
\* (none at all for d = 0), the loop is left, once d seconds have elapsed,
\* through writer.flush() with success (or the flush's own I/O error), and
\* every call in progress comes to its return.
C12_RecordTerminates ==
  /\ [][callers'[At("cv_next")] > callers[At("cv_next")] => elapsed < dur]_vars
  /\ [][(callers'[At("cv_loop")] < callers[At("cv_loop")] /\ elapsed >= dur)
        => (/\ returned'.op = "capture_video"
            /\ returned'.kind \in {"Recorded", "IoError"}
            /\ ~InRecord')]_vars
  /\ [](dur = 0 => callers[At("cv_next")] = 0)
  /\ (InRecord ~> ~InRecord)

\* C12 witness: a capture_video call of a positive duration is back at the
\* loop test after its iterations, the duration having elapsed
C12_Witness ==
  /\ callers[At("cv_loop")] > 0
  /\ dur > 0
  /\ elapsed >= dur

Min(a, b) == IF a < b THEN a ELSE b

\* C13: for a source of L bytes and the destination capacity C,
\* yuyv422_to_rgb24 does exactly min(L div 4, C div 6) pixel-pair steps,
\* reads exactly the source indices below 4*steps (all < L) and writes exactly
\* the destination indices below 6*steps (all < C).
C13_ConverterBounds ==
  conv.applied
    => (/\ conv.steps = Min(Len(src) \div 4, DestCapacity \div 6)
        /\ conv.reads = 0..(4 * conv.steps - 1)
        /\ DOMAIN conv.out = 0..(6 * conv.steps - 1)
        /\ \A k \in conv.reads : k < Len(src)
        /\ \A k \in DOMAIN conv.out : k < DestCapacity /\ conv.out[k] \in 0..255)

\* C13 witness: a frame with more pixel pairs than the destination takes,
\* and a partial pair at its end, has been converted
C13_Witness ==
  /\ conv.applied
  /\ Len(src) \div 4 > DestCapacity \div 6
  /\ Len(src) % 4 # 0
  /\ conv.steps > 0

\* capture workers inside the while loop of lines 167-186
WorkersInLoop == workers["w_check"] + workers["w_next"]
                 + workers["w_lock_buffer"] + workers["w_write"]

\* C14: the running flag is true exactly when a capture worker is in its
\* frame-pulling loop (stated here outside the grace sleep of a stop_camera,
\* and counting a worker from its first statement on, which is the most the
\* code could be hoped to keep).
C14_FlagIffWorkerInLoop ==
  Callers("stop_sleep") = 0 => (CAMERA_RUNNING <=> WorkersInLoop > 0)

\* C15: a capture worker that was in its loop when stop_camera cleared the
\* running flag eventually exits, whatever was called after the stop (stated
\* for the behaviours in which the callers come to rest, all calls returned).
C15_StoppedWorkerExits ==
  <>[](callers[At("idle")] = NumClients)
    => [](stopped \in WorkerPcs => <>(stopped = "none"))

\* C16: get_direct_buffer and release_camera serialize on CAMERA_MUTEX: no
\* step of release_camera (clearing the flag, the grace sleep, the free) is
\* taken while a get_direct_buffer or capture_video call holds CAMERA_MUTEX.
C16_ReleaseSerializedOnCameraMutex ==
  [][ReleaseStep => CAMERA_MUTEX = NoThread]_vars

\* C17: when start_camera fails (device open, format get/set or stream
\* creation), the step that returns the error spawns no worker and leaves the
\* running flag as it was, false.
C17_FailedStartSpawnsNothing ==
  [][(returned'.op = "get_direct_buffer" /\ returned'.kind = "DeviceError")
     => (/\ callers'[At("sc_open")] = callers[At("sc_open")] - 1
         /\ workers' = workers
         /\ ~CAMERA_RUNNING
         /\ ~CAMERA_RUNNING')]_vars

\* C17 witness: the latest step was get_direct_buffer returning the device
\* error of start_camera
C17_Witness ==
  returned.op = "get_direct_buffer" /\ returned.kind = "DeviceError"

\* C18: the capture worker writes only into allocated memory: while a worker
\* is between its null test and the end of yuyv422_to_rgb24 (lines 172-177)
\* it holds the NATIVE_BUFFER mutex, it is the only such worker, and the
\* pointer is non-null and still allocated (no free has come in between).
C18_WorkerWritesLiveBuffer ==
  workers["w_write"] > 0
    => (/\ workers["w_write"] = 1
        /\ buffer_lock = WorkerThread
        /\ NATIVE_BUFFER # NULL
        /\ NATIVE_BUFFER \in heap)

\* C18 witness: a worker is writing while a release_camera call waits at
\* line 61 to free the buffer
C18_Witness == workers["w_write"] > 0 /\ Callers("rel_free") > 0

\* locks are nested only in the order CAMERA_MUTEX, NATIVE_BUFFER,
\* CAMERA_RUNNING: a caller that holds a later one across a step holds the
\* earlier ones, and a worker holds one at a time
LockOrder ==
  /\ running_lock = ClientThread => buffer_lock = ClientThread
  /\ buffer_lock = ClientThread => CAMERA_MUTEX = ClientThread
  /\ running_lock # WorkerThread

\* the holder of each lock can take its next step, or waits for a later lock
\* whose holder can
HolderProceeds ==
  /\ running_lock # NoThread => ENABLED start_camera_open
  /\ buffer_lock = WorkerThread => ENABLED worker_write
  /\ buffer_lock = ClientThread
       => (ENABLED start_camera_lock \/ ENABLED start_camera_open)
  /\ CAMERA_MUTEX # NoThread
       => \/ ENABLED get_direct_buffer_lock_buffer
          \/ ENABLED start_camera_lock
          \/ ENABLED start_camera_open
          \/ ENABLED capture_video_check
          \/ ENABLED capture_video_open
          \/ ENABLED capture_video_loop
          \/ ENABLED capture_video_next
          \/ (buffer_lock = WorkerThread /\ ENABLED worker_write)

\* some thread can step whenever a call is in progress or a worker is alive
NoDeadlock ==
  (callers[At("idle")] < NumClients \/ LiveWorkers > 0)
    => ENABLED (ClientStep \/ WorkerStep)

\* C19: no interleaving deadlocks on the three locks: they nest in the order
\* CAMERA_MUTEX, NATIVE_BUFFER, CAMERA_RUNNING; the holder of a lock can take
\* its next step or waits for a later lock whose holder can, so it never
\* waits for an earlier one and comes to release what it holds; and some
\* thread can step whenever a call is in progress or a worker is alive.
C19_NoDeadlock == LockOrder /\ HolderProceeds /\ NoDeadlock

\* C19 witness: a get_direct_buffer call holding CAMERA_MUTEX waits at line
\* 34 for the NATIVE_BUFFER mutex that a worker holds, with a release_camera
\* call waiting for it as well
C19_Witness ==
  /\ callers[At("gdb_lock_buffer")] > 0
  /\ buffer_lock = WorkerThread
  /\ Callers("rel_free") > 0

\* C20: while a lease is in force (get_direct_buffer has returned a handle
\* and no release_camera step has been taken since) a capture worker is alive.
C20_LeaseHasWorker == phase = "leased" => LiveWorkers > 0

====
